---- MODULE Spec2Model ----
(***************************************************************************)
(* A model of CyberiadaSMModel (src/cyberiadasm_model.cpp): the item tree  *)
(* of a state machine, the identifier index states_map, the conversion of  *)
(* a parsed document into the tree (loadGraph), and the adapter operations *)
(* the tree view calls (setData, move, dropMimeData).                      *)
(*                                                                         *)
(* loadGraph is modelled at the granularity of its loops: one step per     *)
(* iteration of addChildNodes, of generateID's do-while and of the edge    *)
(* loop.  The model is single-threaded like the program: while pc is not   *)
(* "idle" only the steps of the running loadGraph are enabled.  The        *)
(* document the external parser returns is revealed node by node and edge  *)
(* by edge, so every document within the bounds is some path of the model. *)
(***************************************************************************)
EXTENDS Integers, Sequences, FiniteSets, TLC

\* ---------------------------------------------------------------- bounds
\* nodes of one document, top-level nodes included
MaxNodes == 4
\* top-level nodes of one document
MaxTop == 2
\* edges of one document
MaxEdges == 1
\* nodes of a document the renames are tried on
EditNodes == 3
\* nodes of a document the moves and the drops are tried on
DragNodes == 3

\* ------------------------------------------------------------- constants
NULL == <<0, 0>>

SM_DEFAULT_TITLE == "State Machine"
CYBERIADA_EMPTY_NODE_TITLE == "<empty>"
STATES_AGGR_TITLE == "States"
TRANS_AGGR_TITLE == "Transitions"
\* QString("id-%d"): the text generateID passes to QString::arg, as tokens
GenFormat == <<"id-", "%d">>
\* the place markers QString::arg replaces
PlaceMarkers == {"%1", "%2", "%3", "%4", "%5", "%6", "%7", "%8", "%9"}
\* values of qrand() % 10000 the model draws
RandNums == {0, 9999}

EditRole == "Qt::EditRole"
DisplayRole == "Qt::DisplayRole"

VARIABLES
    generation,   \* the tag of the current tree's items, whose handles are
                  \* <<generation, n>>: it alternates between 1 and 2 with
                  \* each initTrees, so that the items of the tree just
                  \* deleted and those of the new tree differ
    items,        \* the heap: handle -> item
    root, sm_root, states_root, trans_root,
    states_map,   \* the identifier index: id -> handle
    sm_name,
    pc,           \* position of the running loadGraph, "idle" when none runs
    sm,           \* the document cyberiada_read_sm returned to the last loadGraph
    built,        \* built[i]: the item convertNode made for sm.nodes[i]
    path,         \* addChildNodes' recursion: indices of the nodes being walked
    num,          \* generateID's local num while its loop runs
    lastOp,       \* the last operation called, its arguments and its result
    notes         \* what the last operation emitted and changed, in order

vars == <<generation, items, root, sm_root, states_root, trans_root, states_map,
          sm_name, pc, sm, built, path, num, lastOp, notes>>

\* ------------------------------------------------------------ text helpers
RECURSIVE Concat(_)
Concat(toks) ==
    IF toks = <<>> THEN "" ELSE Head(toks) \o Concat(Tail(toks))

RECURSIVE DropLeadingSpace(_)
DropLeadingSpace(toks) ==
    IF toks # <<>> /\ Head(toks) = " " THEN DropLeadingSpace(Tail(toks)) ELSE toks

RECURSIVE DropTrailingSpace(_)
DropTrailingSpace(toks) ==
    IF toks # <<>> /\ toks[Len(toks)] = " "
    THEN DropTrailingSpace(SubSeq(toks, 1, Len(toks) - 1))
    ELSE toks

\* QString::trimmed() on a text given as its characters
Trimmed(toks) == Concat(DropTrailingSpace(DropLeadingSpace(toks)))

\* QString::arg(int): replaces the place markers %1..%99 of the text by the
\* number; a text without a place marker is returned as it is
QStringArg(fmt, n) ==
    Concat([i \in 1..Len(fmt) |->
               IF fmt[i] \in PlaceMarkers THEN ToString(n) ELSE fmt[i]])

\* ------------------------------------------------------------------ items
NewItem(type, id, title, action, parent) ==
    [type |-> type, id |-> id, title |-> title, action |-> action,
     parent |-> parent, children |-> <<>>, source |-> NULL, target |-> NULL]

\* what a function returning an item returns for NULL
NullItem == [type |-> "NULL"]

\* new CyberiadaRootItem(): the root, the state machine root and the two
\* aggregations, as handles 1..4 of generation g
RootItemTree(g) ==
    (<<g, 1>> :> [NewItem("nodeRoot", "", "", "", NULL)
                     EXCEPT !.children = << <<g, 2>> >>]) @@
    (<<g, 2>> :> [NewItem("nodeSM", "", SM_DEFAULT_TITLE, "", <<g, 1>>)
                     EXCEPT !.children = << <<g, 3>>, <<g, 4>> >>]) @@
    (<<g, 3>> :> NewItem("nodeStatesAggr", "", STATES_AGGR_TITLE, "", <<g, 2>>)) @@
    (<<g, 4>> :> NewItem("nodeTransitionsAggr", "", TRANS_AGGR_TITLE, "", <<g, 2>>))

\* the handle the next new item of this generation gets
NewHandle(its, g) == <<g, Cardinality({h \in DOMAIN its : h[1] = g}) + 1>>

\* the items a delete of h destroys: h and everything it owns
RECURSIVE Subtree(_, _)
Subtree(its, h) ==
    IF h \notin DOMAIN its THEN {}
    ELSE {h} \cup UNION {Subtree(its, its[h].children[i]) :
                            i \in 1..Len(its[h].children)}

\* parent->addChild(child)
AddChild(its, parent, child) ==
    [its EXCEPT ![parent].children = Append(@, child),
                ![child].parent = parent]

\* item->rename(text)
Rename(its, h, text) == [its EXCEPT ![h].title = text]

\* item->row(): the position among the siblings, from 0
RECURSIVE IndexOf(_, _, _)
IndexOf(seq, x, i) ==
    IF i > Len(seq) THEN 0
    ELSE IF seq[i] = x THEN i ELSE IndexOf(seq, x, i + 1)

Row(its, h) ==
    IF its[h].parent = NULL \/ its[h].parent \notin DOMAIN its THEN 0
    ELSE IndexOf(its[its[h].parent].children, h, 1) - 1

ChildCount(its, h) == Len(its[h].children)

\* the items of the hierarchy: those reachable from the root
Hierarchy == Subtree(items, root)

\* ------------------------------------------------------- notifications
Note(kind, parent) == [kind |-> kind, parent |-> parent]

\* ------------------------------------------------- the identifier index
MapContains(map, id) == id \in DOMAIN map

\* states_map.value(id, NULL)
MapValue(map, id) == IF id \in DOMAIN map THEN map[id] ELSE NULL

\* the key addToMap's while loop ends with
RECURSIVE FreeKey(_, _)
FreeKey(map, id) ==
    IF MapContains(map, id) THEN FreeKey(map, id \o "_") ELSE id

\* states_map.insert(key, item): QMap::insert replaces the value of a present key
MapInsert(map, key, h) ==
    [k \in DOMAIN map \cup {key} |-> IF k = key THEN h ELSE map[k]]

\* addToMap without its while loop
AddToMapNoLoop(map, id, h) == MapInsert(map, id, h)

\* addToMap
AddToMap(map, id, h) == MapInsert(map, FreeKey(map, id), h)

\* idToItem
IdToItem(id) == MapValue(states_map, id)

\* --------------------------------------------------------- reset
\* the tag initTrees gives the next tree
NextGeneration == 3 - generation

\* cleanupTrees without states_map.clear()
CleanupMapKept(map) == map

\* cleanupTrees: states_map.clear()
CleanupMap(map) == <<>>

\* cleanupTrees: delete root.  The items that root does not own (those
\* convertNode built for top-level nodes) stay allocated, but nothing refers
\* to them any more: the heap of the model keeps none of them.
CleanupItems(its) == <<>>

\* cleanupTrees then initTrees, on the heap
ResetItems == CleanupItems(items) @@ RootItemTree(NextGeneration)

\* what reset() emits and changes, in order
ResetNotes ==
    << Note("beginResetModel", NULL),
       Note("childCount", root),
       Note("childCount", <<NextGeneration, 1>>),
       Note("endResetModel", NULL) >>

\* initTrees: the members of the model point to the new tree; the caller
\* says what becomes of the heap
\* initTrees taking the aggregations from sm_root in the wrong order
InitTreesSwapped ==
    /\ generation' = NextGeneration
    /\ root' = <<NextGeneration, 1>>
    /\ sm_root' = <<NextGeneration, 2>>
    /\ states_root' = <<NextGeneration, 4>>
    /\ trans_root' = <<NextGeneration, 3>>

InitTrees ==
    /\ generation' = NextGeneration
    /\ root' = <<NextGeneration, 1>>
    /\ sm_root' = <<NextGeneration, 2>>
    /\ states_root' = <<NextGeneration, 3>>
    /\ trans_root' = <<NextGeneration, 4>>

EmptySM == [name |-> "", nodes |-> <<>>, edges |-> <<>>]

\* the last call made on the model: the function, its arguments, its result
Op(op, item, target, value, role, ret) ==
    [op |-> op, item |-> item, target |-> target, value |-> value,
     role |-> role, ret |-> ret]

Reset ==
    /\ pc = "idle"
    /\ InitTrees
    /\ items' = ResetItems
    /\ states_map' = CleanupMap(states_map)
    /\ notes' = ResetNotes
    /\ lastOp' = Op("reset", NULL, NULL, "", "", "void")
    /\ sm' = EmptySM
    /\ built' = <<>>
    /\ UNCHANGED <<sm_name, pc, path, num>>

\* --------------------------------------------------------- documents
\* the names a document's state machine may have
SMNames == {"", "Light"}

\* the nodes a document is made of; the text of an action is given as its
\* characters
StateA == [type |-> "cybNodeSimpleState", id |-> "a", title |-> "Off",
           action |-> <<" ", "e", "/", " ">>]
StateB == [type |-> "cybNodeSimpleState", id |-> "a_", title |-> "",
           action |-> <<>>]
InitialA == [type |-> "cybNodeInitial", id |-> "a", title |-> "",
             action |-> <<>>]
CommentC == [type |-> "cybNodeComment", id |-> "c", title |-> "",
             action |-> <<"n", "b">>]
TopNode == [type |-> "cybNodeSM", id |-> "g", title |-> "", action |-> <<>>]

NodeKinds == {StateA, StateB, InitialA, CommentC}

\* ------------------------------------------------------- loadGraph
LoadOp(status) == Op("loadGraph", NULL, NULL, "", "", status)

\* renameSM, on the heap after the reset
RenameSM(its, h, new_name) ==
    IF Len(new_name) > 0 THEN Rename(its, h, new_name) ELSE its

\* loadGraph up to the call of addChildNodes: reset, cyberiada_read_sm,
\* renameSM
LoadGraphBegin(res, name) ==
    /\ pc = "idle"
    /\ InitTrees
    /\ states_map' = CleanupMap(states_map)
    /\ notes' = ResetNotes
    /\ built' = <<>>
    /\ path' = <<>>
    /\ num' = 0
    /\ IF res # "CYBERIADA_NO_ERROR"
       THEN /\ items' = ResetItems
            /\ sm' = EmptySM
            /\ pc' = "idle"
            /\ lastOp' = LoadOp("read_error")
            /\ UNCHANGED sm_name
       ELSE /\ items' = RenameSM(ResetItems, <<NextGeneration, 2>>, name)
            /\ sm_name' = IF Len(name) > 0 THEN name ELSE sm_name
            /\ sm' = [EmptySM EXCEPT !.name = name]
            /\ pc' = "addChildNodes"
            /\ lastOp' = LoadOp("running")

\* generateID's candidate for one value of qrand() % 10000
GenCandidate(n) == QStringArg(GenFormat, n)

\* convertNode: the item built for a node; genid is what generateID returned
ConvertNode(node, parent, genid) ==
    IF node.type = "cybNodeInitial"
    THEN NewItem("nodeInitialState", node.id, "", "", parent)
    ELSE IF node.type = "cybNodeComment"
    THEN NewItem("nodeComment", genid, Concat(node.action), Concat(node.action), parent)
    ELSE NewItem("nodeState", node.id,
                 IF node.title = "" THEN CYBERIADA_EMPTY_NODE_TITLE ELSE node.title,
                 Trimmed(node.action), parent)

\* addChildNodes passing the item built for a top-level node on to the
\* node's children
ParentItemOfTop(p) == IF p = 0 THEN states_root ELSE built[p]

\* the parent_item addChildNodes holds when it reaches a node whose document
\* parent is p: the children of a top-level node are given the states
\* aggregation
ParentItem(p) ==
    IF p = 0 \/ sm.nodes[p].parent = 0 THEN states_root ELSE built[p]

\* the path of the recursion once the node n under p is reached
RECURSIVE PathTo(_, _)
PathTo(pth, p) ==
    IF pth = <<>> \/ p = 0 THEN <<>>
    ELSE IF pth[Len(pth)] = p THEN pth
    ELSE PathTo(SubSeq(pth, 1, Len(pth) - 1), p)

\* one iteration of addChildNodes' loop once convertNode has returned: node
\* is sm.nodes[n], genid is what generateID returned (comments only)
FinishNode(n, node, genid) ==
    LET p == node.parent
        h == NewHandle(items, generation)
        item == ConvertNode(node, ParentItem(p), genid)
        heap == (h :> item) @@ items
    IN  /\ built' = Append(built, h)
        /\ path' = Append(PathTo(path, p), n)
        /\ num' = 0
        /\ pc' = "addChildNodes"
        /\ IF p = 0
           THEN /\ items' = heap
                /\ UNCHANGED <<states_map, notes>>
           ELSE /\ states_map' = AddToMap(states_map, item.id, h)
                /\ items' = AddChild(heap, ParentItem(p), h)
                /\ notes' = Append(notes, Note("childCount", ParentItem(p)))

\* one iteration of generateID's do-while for node: r is qrand() % 10000.
\* The loop is left when the candidate is no key of the index; otherwise
\* the program is at the loop's head again.
GenerateIDStep(n, node, r) ==
    IF MapContains(states_map, GenCandidate(r))
    THEN /\ pc' = "generateID"
         /\ num' = r
         /\ UNCHANGED <<items, states_map, notes, built, path>>
    ELSE FinishNode(n, node, GenCandidate(r))

\* the nodes a next node may be the child of: the nodes on the path that
\* are top-level nodes or states; 0 stands for a further top-level node
ParentChoices ==
    {0} \cup {path[i] : i \in {j \in 1..Len(path) :
                 sm.nodes[path[j]].type \in {"cybNodeSM", "cybNodeSimpleState"}}}

\* addChildNodes reaches the next node of the document, which is of the given
\* kind and a child of node p (a top-level node when p = 0)
AddChildNodesStep(kind, p) ==
    /\ pc = "addChildNodes"
    /\ p \in ParentChoices
    /\ (p = 0) <=> (kind = TopNode)
    /\ LET n == Len(sm.nodes) + 1
           node == [type |-> kind.type, id |-> kind.id, title |-> kind.title,
                    action |-> kind.action, parent |-> p]
       IN  /\ sm' = [sm EXCEPT !.nodes = Append(@, node)]
           /\ IF node.type = "cybNodeComment"
              THEN \E r \in RandNums : GenerateIDStep(n, node, r)
              ELSE FinishNode(n, node, "")
    /\ UNCHANGED <<generation, root, sm_root, states_root, trans_root,
                   sm_name, lastOp>>

\* a further iteration of generateID's do-while, for the comment node that
\* convertNode is converting
GenerateIDLoop ==
    /\ pc = "generateID"
    /\ \E r \in RandNums :
          GenerateIDStep(Len(sm.nodes), sm.nodes[Len(sm.nodes)], r)
    /\ UNCHANGED <<generation, root, sm_root, states_root, trans_root,
                   sm_name, lastOp, sm>>

\* convertEdge without its test of the two ends
ConvertEdgeUnchecked(map, edge) ==
    [NewItem("nodeTransition", edge.id, Trimmed(edge.action),
             Trimmed(edge.action), NULL)
        EXCEPT !.source = MapValue(map, sm.nodes[edge.source].id),
               !.target = MapValue(map, sm.nodes[edge.target].id)]

\* convertEdge: the transition item, or NULL when an end is not in the index
ConvertEdge(map, edge) ==
    LET source == MapValue(map, sm.nodes[edge.source].id)
        target == MapValue(map, sm.nodes[edge.target].id)
    IN  IF source = NULL \/ target = NULL THEN NullItem
        ELSE [NewItem("nodeTransition", edge.id, Trimmed(edge.action),
                      Trimmed(edge.action), NULL)
                 EXCEPT !.source = source, !.target = target]

\* the ends an edge of the document may have: any node as its source, and
\* the second node of the document as its target
EdgeEnds ==
    {e \in (1..Len(sm.nodes)) \X (1..Len(sm.nodes)) : e[2] = 2}

\* one iteration of loadGraph's loop over the edges: the next edge of the
\* document goes from node s to node t
LoadEdgeStep(s, t) ==
    /\ pc \in {"addChildNodes", "edges"}
    /\ <<s, t>> \in EdgeEnds
    /\ LET edge == [id |-> "e" \o ToString(Len(sm.edges) + 1),
                    source |-> s, target |-> t,
                    action |-> <<"g", "o", " ">>]
           item == ConvertEdge(states_map, edge)
           h == NewHandle(items, generation)
       IN  /\ sm' = [sm EXCEPT !.edges = Append(@, edge)]
           /\ IF item = NullItem
              THEN /\ pc' = "idle"
                   /\ lastOp' = LoadOp("edge_error")
                   /\ UNCHANGED <<items, notes>>
              ELSE /\ pc' = "edges"
                   /\ items' = AddChild((h :> item) @@ items, trans_root, h)
                   /\ notes' = Append(notes, Note("childCount", trans_root))
                   /\ UNCHANGED lastOp
    /\ path' = <<>>
    /\ UNCHANGED <<generation, root, sm_root, states_root, trans_root,
                   states_map, sm_name, built, num>>

\* loadGraph returns after the last edge
LoadGraphReturn ==
    /\ pc \in {"addChildNodes", "edges"}
    /\ pc' = "idle"
    /\ path' = <<>>
    /\ lastOp' = LoadOp("ok")
    /\ UNCHANGED <<generation, items, root, sm_root, states_root, trans_root,
                   states_map, sm_name, sm, built, num, notes>>

\* ------------------------------------------------------------ addresses
\* createIndex(row, column, ptr); QModelIndex() is InvalidIndex
CreateIndex(row, column, ptr) == [row |-> row, column |-> column, ptr |-> ptr]

InvalidIndex == CreateIndex(-1, -1, NULL)

\* QModelIndex::isValid
IsValid(index) == index.row >= 0 /\ index.column >= 0

SMIndex == CreateIndex(0, 0, sm_root)

\* the address index(row, 0, parent) gives for the item h of the hierarchy
AddressOf(its, h) == CreateIndex(Row(its, h), 0, h)

\* item->getType() of the item an address points to
TypeAt(its, index) == its[index.ptr].type

IsStateIndex(its, index) == IsValid(index) /\ TypeAt(its, index) = "nodeState"

IsInitialStateIndex(its, index) ==
    IsValid(index) /\ TypeAt(its, index) = "nodeInitialState"

IsActionIndex(its, index) == IsValid(index) /\ TypeAt(its, index) = "nodeAction"

\* ---------------------------------------------------------------- setData
\* setData without its test for an empty string
SetDataAcceptsEmpty(its, index, value, role) ==
    /\ IsValid(index)
    /\ role = EditRole
    /\ index.column = 0
    /\ (index = SMIndex \/ IsStateIndex(its, index) \/ IsActionIndex(its, index))

\* setData without its test of the role
SetDataAcceptsAnyRole(its, index, value, role) ==
    /\ IsValid(index)
    /\ index.column = 0
    /\ (index = SMIndex \/ IsStateIndex(its, index) \/ IsActionIndex(its, index))
    /\ ~(~IsActionIndex(its, index) /\ value = "")

\* whether setData takes the address, the role and the text
SetDataAccepts(its, index, value, role) ==
    /\ IsValid(index)
    /\ role = EditRole
    /\ index.column = 0
    /\ (index = SMIndex \/ IsStateIndex(its, index) \/ IsActionIndex(its, index))
    /\ ~(~IsActionIndex(its, index) /\ value = "")

\* setData on the heap its: what it returns, the heap and what it emits
SetDataResult(its, index, value, role) ==
    IF SetDataAccepts(its, index, value, role)
    THEN [ret |-> "true", items |-> Rename(its, index.ptr, value),
          notes |-> << Note("dataChanged", index.ptr) >>]
    ELSE [ret |-> "false", items |-> its, notes |-> <<>>]

SetData(index, value, role) ==
    /\ pc = "idle"
    /\ LET res == SetDataResult(items, index, value, role)
       IN  /\ items' = res.items
           /\ notes' = res.notes
           /\ lastOp' = [op |-> "setData", item |-> index.ptr, target |-> NULL,
                         value |-> value, role |-> role, ret |-> res.ret,
                         column |-> index.column]
    /\ UNCHANGED <<generation, root, sm_root, states_root, trans_root,
                   states_map, sm_name, pc, sm, built, path, num>>

\* ------------------------------------------------------- move and drops
\* move: its body is commented out, the function does nothing
Move(item, target_item) ==
    /\ pc = "idle"
    /\ notes' = <<>>
    /\ lastOp' = Op("move", item, target_item, "", "", "void")
    /\ UNCHANGED <<generation, items, root, sm_root, states_root, trans_root,
                   states_map, sm_name, pc, sm, built, path, num>>

\* what dropMimeData may return: its body is commented out, so the function
\* ends without a return statement and its bool result is whatever the
\* build leaves in the return register
DropReturns == {"true", "false"}

\* dropMimeData with a payload of identifiers on the item target
DropMimeData(payload, target_item, ret) ==
    /\ pc = "idle"
    /\ ret \in DropReturns
    /\ notes' = <<>>
    /\ lastOp' = Op("dropMimeData", NULL, target_item, payload, "", ret)
    /\ UNCHANGED <<generation, items, root, sm_root, states_root, trans_root,
                   states_map, sm_name, pc, sm, built, path, num>>

Init ==
    /\ generation = 1
    /\ items = RootItemTree(1)
    /\ root = <<1, 1>>
    /\ sm_root = <<1, 2>>
    /\ states_root = <<1, 3>>
    /\ trans_root = <<1, 4>>
    /\ states_map = <<>>
    /\ sm_name = SM_DEFAULT_TITLE
    /\ pc = "idle"
    /\ sm = EmptySM
    /\ built = <<>>
    /\ path = <<>>
    /\ num = 0
    /\ lastOp = Op("new", NULL, NULL, "", "", "void")
    /\ notes = <<>>

\* the top-level nodes of the document read so far
TopCount == Cardinality({i \in 1..Len(sm.nodes) : sm.nodes[i].parent = 0})

\* loadGraph and reset, for documents of the given nodes within the bounds
LoadNext(kinds, names, maxNodes, maxTop, maxEdges) ==
    \/ Reset
    \/ \E res \in {"CYBERIADA_NO_ERROR", "CYBERIADA_XML_ERROR"}, name \in names :
          LoadGraphBegin(res, name)
    \/ \E kind \in kinds \cup {TopNode}, p \in 0..maxNodes :
          /\ Len(sm.nodes) < maxNodes
          /\ (p = 0) => (TopCount < maxTop)
          /\ AddChildNodesStep(kind, p)
    \/ GenerateIDLoop
    \/ \E s \in 1..maxNodes, t \in 1..maxNodes :
          /\ Len(sm.edges) < maxEdges
          /\ LoadEdgeStep(s, t)
    \/ LoadGraphReturn

Next == LoadNext(NodeKinds, SMNames, MaxNodes, MaxTop, MaxEdges)

Spec == Init /\ [][Next]_vars

\* the program keeps running: a step that can be taken is taken
FairSpec == Spec /\ WF_vars(Next)

\* the nodes of the documents the renames are tried on
EditKinds == {StateA, CommentC}

\* the nodes of the documents the moves and the drops are tried on
DragKinds == {StateA, InitialA, CommentC}

\* the texts and roles a rename is tried with
EditTries == {<<"", EditRole>>, <<"x", EditRole>>, <<"x", DisplayRole>>}

\* loads, resets and renames
EditNext ==
    \/ LoadNext(EditKinds, SMNames, EditNodes, 1, 1)
    \/ \E h \in Hierarchy, try \in EditTries :
          SetData(AddressOf(items, h), try[1], try[2])
    \/ \E h \in {sm_root} \cup {q \in Hierarchy : items[q].type = "nodeState"} :
          SetData(CreateIndex(Row(items, h), 1, h), "x", EditRole)
    \/ SetData(InvalidIndex, "x", EditRole)

EditSpec == Init /\ [][EditNext]_vars

\* the payloads of a drop: one or two identifiers of the index
DropPayloads ==
    {<<k>> : k \in DOMAIN states_map} \cup
    {q \in {<<k1, k2>> : k1 \in DOMAIN states_map, k2 \in DOMAIN states_map} :
        q[1] # q[2]}

\* the items a move or a drop is aimed at
DropTargets ==
    {h \in Hierarchy :
        items[h].type \in {"nodeStatesAggr", "nodeTransitionsAggr", "nodeState"}}

\* loads, resets, moves and drops
DragNext ==
    \/ LoadNext(DragKinds, {"Light"}, DragNodes, 1, 1)
    \/ \E h \in Hierarchy, t \in DropTargets :
          /\ items[h].type \in {"nodeState", "nodeInitialState", "nodeComment"}
          /\ Move(h, t)
    \/ \E payload \in DropPayloads, t \in DropTargets, ret \in DropReturns :
          DropMimeData(payload, t, ret)

DragSpec == Init /\ [][DragNext]_vars

\* loads, resets, renames, moves and drops, one after the other
ModelNext ==
    \/ LoadNext(EditKinds, {"Light"}, EditNodes, 1, 1)
    \/ \E h \in Hierarchy : SetData(AddressOf(items, h), "x", EditRole)
    \/ \E h \in Hierarchy, t \in DropTargets :
          /\ items[h].type \in {"nodeState", "nodeInitialState", "nodeComment"}
          /\ Move(h, t)
    \/ \E k \in DOMAIN states_map, t \in DropTargets, ret \in DropReturns :
          DropMimeData(<<k>>, t, ret)

ModelSpec == Init /\ [][ModelNext]_vars

\* ------------------------------------------------------------- navigation
\* nodes of a document the navigation is tried on
NavNodes == 3

RootIndex == CreateIndex(0, 0, root)
StatesRootIndex == CreateIndex(0, 0, states_root)
TransitionsRootIndex == CreateIndex(1, 0, trans_root)

\* hasIndex
HasIndex(its, row, column, parent) ==
    IF column > 0 THEN FALSE
    ELSE IF ~IsValid(parent) THEN row = 0
    ELSE IF ChildCount(its, parent.ptr) > 0
         THEN row >= 0 /\ row < ChildCount(its, parent.ptr)
         ELSE FALSE

\* index
Index(its, row, column, parent) ==
    IF ~IsValid(parent) \/ ~HasIndex(its, row, column, parent)
    THEN InvalidIndex
    ELSE CreateIndex(row, column, its[parent.ptr].children[row + 1])

\* parent
Parent(its, index) ==
    IF ~IsValid(index) \/ index = RootIndex THEN InvalidIndex
    ELSE IF index = SMIndex THEN RootIndex
    ELSE LET parentItem == its[index.ptr].parent
         IN  IF parentItem = root THEN RootIndex
             ELSE CreateIndex(Row(its, parentItem), 0, parentItem)

\* rowCount
RowCount(its, parent) ==
    IF parent.column > 0 THEN 0
    ELSE IF ~IsValid(parent) \/ parent = RootIndex
         THEN ChildCount(its, root)
         ELSE ChildCount(its, parent.ptr)

\* itemToIndex
RECURSIVE ItemToIndex(_, _)
ItemToIndex(its, item) ==
    IF item = NULL THEN InvalidIndex
    ELSE IF its[item].type = "nodeRoot" THEN RootIndex
    ELSE LET parent == its[item].parent
         IN  Index(its, Row(its, parent), 0, ItemToIndex(its, parent))

\* indexToItem
IndexToItem(index) == IF ~IsValid(index) THEN root ELSE index.ptr

\* the navigation functions: const member functions, which leave the model
\* as it is
Queries == {"hasIndex", "index", "parent", "rowCount", "itemToIndex"}

\* a call of a navigation function, its arguments and what it returned
Query(op, args, ret) == [op |-> op, args |-> args, ret |-> ret]

\* the model is at rest and the call before was none of the queries: a
\* query changes nothing of the model, so a query after a query returns
\* what it returns when called first
AtRest(queries) == pc = "idle" /\ lastOp.op \notin queries

\* a query returning ret when called with args
Answer(queries, op, args, ret) ==
    /\ AtRest(queries)
    /\ lastOp' = Query(op, args, ret)
    /\ notes' = <<>>
    /\ UNCHANGED <<generation, items, root, sm_root, states_root, trans_root,
                   states_map, sm_name, pc, sm, built, path, num>>

BoolText(b) == IF b THEN "true" ELSE "false"

HasIndexCall(row, column, parent) ==
    Answer(Queries, "hasIndex",
           [row |-> row, column |-> column, parent |-> parent],
           BoolText(HasIndex(items, row, column, parent)))

IndexCall(row, column, parent) ==
    Answer(Queries, "index",
           [row |-> row, column |-> column, parent |-> parent],
           Index(items, row, column, parent))

ParentCall(index) ==
    Answer(Queries, "parent", [index |-> index], Parent(items, index))

RowCountCall(parent) ==
    Answer(Queries, "rowCount", [parent |-> parent], RowCount(items, parent))

ItemToIndexCall(item) ==
    Answer(Queries, "itemToIndex", [item |-> item], ItemToIndex(items, item))

\* the addresses the model gives out for the items of the hierarchy, and
\* QModelIndex()
Addresses == {AddressOf(items, h) : h \in Hierarchy} \cup {InvalidIndex}

\* the rows and the columns the navigation is tried with
NavRows == {-1, 0, 1, 2}
NavColumns == {-1, 0, 1}

\* loads, resets and navigation
NavNext ==
    \/ LoadNext(EditKinds, {"Light"}, NavNodes, 1, 1)
    \/ \E row \in NavRows, column \in NavColumns, parent \in Addresses :
          HasIndexCall(row, column, parent)
    \/ \E row \in NavRows, column \in NavColumns, parent \in Addresses :
          IndexCall(row, column, parent)
    \/ \E index \in Addresses : ParentCall(index)
    \/ \E parent \in Addresses : RowCountCall(parent)
    \/ \E item \in Hierarchy : ItemToIndexCall(item)

NavSpec == Init /\ [][NavNext]_vars

\* ------------------------------------------------- flags and mime data
\* nodes of a document the flags and the mime data are tried on
ViewNodes == 3

DefaultFlags == {"ItemIsEnabled", "ItemIsSelectable"}

\* flags without the inner test that tells states from initial states
FlagsInitialAsState(its, index) ==
    IF index = StatesRootIndex
    THEN {"ItemIsDropEnabled"} \cup DefaultFlags
    ELSE IF IsStateIndex(its, index) \/ IsInitialStateIndex(its, index)
    THEN DefaultFlags \cup {"ItemIsDragEnabled", "ItemIsDropEnabled", "ItemIsEditable"}
    ELSE IF IsActionIndex(its, index) \/ index = SMIndex
    THEN {"ItemIsEditable"} \cup DefaultFlags
    ELSE DefaultFlags

\* flags
Flags(its, index) ==
    IF index = StatesRootIndex
    THEN {"ItemIsDropEnabled"} \cup DefaultFlags
    ELSE IF IsStateIndex(its, index) \/ IsInitialStateIndex(its, index)
    THEN DefaultFlags \cup {"ItemIsDragEnabled"} \cup
         (IF IsStateIndex(its, index)
          THEN {"ItemIsDropEnabled", "ItemIsEditable"} ELSE {})
    ELSE IF IsActionIndex(its, index) \/ index = SMIndex
    THEN {"ItemIsEditable"} \cup DefaultFlags
    ELSE DefaultFlags

\* the media type of the payloads
cyberiadaStateMimeType == "CYBERIADA_MIME_TYPE_STATE"

\* mimeTypes
MimeTypes == << cyberiadaStateMimeType >>

\* QDataStream << QString: the number of bytes of the text, two for each
\* character, and then the text; nothing follows the number when it is 0
WriteString(str) == IF Len(str) = 0 THEN << 0 >> ELSE << 2 * Len(str), str >>

\* the stream mimeData's loop writes for the addresses from the i-th on
RECURSIVE WriteIds(_, _, _)
WriteIds(its, indexes, i) ==
    IF i > Len(indexes) THEN <<>>
    ELSE LET index == indexes[i]
         IN  IF index.column # 0
             THEN WriteIds(its, indexes, i + 1)
             ELSE IF ~IsStateIndex(its, index) /\ ~IsInitialStateIndex(its, index)
             THEN WriteIds(its, indexes, i + 1)
             ELSE WriteString(its[IndexToItem(index)].id)
                      \o WriteIds(its, indexes, i + 1)

\* mimeData's loop without its test of the category
RECURSIVE WriteAllIds(_, _, _)
WriteAllIds(its, indexes, i) ==
    IF i > Len(indexes) THEN <<>>
    ELSE LET index == indexes[i]
         IN  IF index.column # 0
             THEN WriteAllIds(its, indexes, i + 1)
             ELSE WriteString(its[IndexToItem(index)].id)
                      \o WriteAllIds(its, indexes, i + 1)

\* mimeData without its test of the category
MimeDataOfAll(its, indexes) ==
    [format |-> cyberiadaStateMimeType, data |-> WriteAllIds(its, indexes, 1)]

\* mimeData
MimeData(its, indexes) ==
    [format |-> cyberiadaStateMimeType, data |-> WriteIds(its, indexes, 1)]

\* QDataStream >> QString, repeated until the stream is at its end: the
\* texts of the stream, in order
RECURSIVE ReadStrings(_)
ReadStrings(stream) ==
    IF stream = <<>> THEN <<>>
    ELSE IF stream[1] = 0
    THEN << "" >> \o ReadStrings(Tail(stream))
    ELSE << stream[2] >> \o ReadStrings(Tail(Tail(stream)))

\* flags and mimeData: const member functions
ViewQueries == {"flags", "mimeData"}

FlagsCall(index) ==
    Answer(ViewQueries, "flags", [index |-> index], Flags(items, index))

MimeDataCall(indexes) ==
    Answer(ViewQueries, "mimeData", [indexes |-> indexes],
           MimeData(items, indexes))

\* an initial state without identifier
InitialE == [type |-> "cybNodeInitial", id |-> "", title |-> "", action |-> <<>>]

\* the nodes of the documents the flags and the mime data are tried on
ViewKinds == {StateA, InitialE, CommentC}

\* the addresses mimeData is tried with: those of the items of the
\* hierarchy, QModelIndex(), and column 1 beside the states
MimeAddresses ==
    Addresses \cup
    {CreateIndex(Row(items, h), 1, h) :
        h \in {q \in Hierarchy : items[q].type = "nodeState"}}

\* the lists of addresses mimeData is tried with
MimeLists ==
    {<<>>} \cup {<<a>> : a \in MimeAddresses}
           \cup {<<a, b>> : a \in MimeAddresses, b \in MimeAddresses}

\* loads, resets, flags and mime data
ViewNext ==
    \/ LoadNext(ViewKinds, {"Light"}, ViewNodes, 1, 1)
    \/ \E index \in Addresses : FlagsCall(index)
    \/ \E indexes \in MimeLists : MimeDataCall(indexes)

ViewSpec == Init /\ [][ViewNext]_vars

\* ============================================================ properties
\* the nodes of the document that are not top-level nodes
NonTop == {i \in 1..Len(sm.nodes) : sm.nodes[i].parent # 0}

\* the items of the hierarchy built from nodes
NodeItems ==
    {h \in Hierarchy :
        items[h].type \in {"nodeState", "nodeInitialState", "nodeComment"}}

Transitions == items[trans_root].children

LoadReturned == pc = "idle" /\ lastOp.op = "loadGraph"

\* C1: when loadGraph returns because an edge has an end that is not in the
\* index, the states aggregation and the transitions aggregation have no
\* children.
C1_EdgeErrorLeavesEmptyTree ==
    (LoadReturned /\ lastOp.ret = "edge_error") =>
        /\ ChildCount(items, states_root) = 0
        /\ ChildCount(items, trans_root) = 0

\* C2: a loadGraph of a document whose edges all go between nodes that are
\* not top-level nodes ends with one item per such node, siblings in the
\* order of the document, and one transition per edge whose source and
\* target are the items built from the nodes the edge names.
C2_LoadBuildsNodesAndEdges ==
    (/\ LoadReturned
     /\ lastOp.ret # "read_error"
     /\ \A j \in 1..Len(sm.edges) :
           sm.edges[j].source \in NonTop /\ sm.edges[j].target \in NonTop)
    =>
    (/\ lastOp.ret = "ok"
     /\ Cardinality(NodeItems) = Cardinality(NonTop)
     /\ NodeItems = {built[i] : i \in NonTop}
     /\ \A i \in NonTop, j \in NonTop :
           (i < j /\ items[built[i]].parent = items[built[j]].parent)
               => Row(items, built[i]) < Row(items, built[j])
     /\ Len(Transitions) = Len(sm.edges)
     /\ \A j \in 1..Len(sm.edges) :
           /\ items[Transitions[j]].source = built[sm.edges[j].source]
           /\ items[Transitions[j]].target = built[sm.edges[j].target])

\* C3: generateID terminates: whenever its loop runs, it is left, and the
\* identifier it returns is no key of the index.
C3_GenerateIDTerminates ==
    /\ [](pc = "generateID" => <>(pc # "generateID"))
    /\ [][(Len(built') > Len(built)
             /\ items'[built'[Len(built')]].type = "nodeComment")
          => ~MapContains(states_map, items'[built'[Len(built')]].id)]_vars

\* id followed by j times the character '_'
RECURSIVE Pad(_, _)
Pad(id, j) == IF j = 0 THEN id ELSE Pad(id, j - 1) \o "_"

\* C4: every insert of addToMap grows the index by exactly one entry and
\* changes no entry that was there; the item is stored under its identifier
\* followed by as many '_' as it takes to reach a key that was not used, and
\* no two keys of the index hold the same item.
C4_AddToMapKeepsEntries ==
    [][(Len(built') > Len(built) /\ sm'.nodes[Len(built')].parent # 0) =>
          LET h == built'[Len(built')]
              id == items'[h].id
          IN  /\ Cardinality(DOMAIN states_map') = Cardinality(DOMAIN states_map) + 1
              /\ \A k \in DOMAIN states_map :
                    k \in DOMAIN states_map' /\ states_map'[k] = states_map[k]
              /\ \E j \in 0..MaxNodes :
                    /\ DOMAIN states_map' \ DOMAIN states_map = {Pad(id, j)}
                    /\ states_map'[Pad(id, j)] = h
                    /\ \A i \in 0..(j - 1) : Pad(id, i) \in DOMAIN states_map
              /\ \A k1 \in DOMAIN states_map', k2 \in DOMAIN states_map' :
                    states_map'[k1] = states_map'[k2] => k1 = k2]_vars

\* C4's case: three items registered, the third under its identifier "a"
\* followed by two '_' because "a" and "a_" were keys already
C4_Witness ==
    /\ LoadReturned
    /\ {"a", "a_", "a__"} \subseteq DOMAIN states_map
    /\ items[states_map["a__"]].id = "a"
    /\ Cardinality({states_map[k] : k \in DOMAIN states_map}) = 3

IsBegin(n) == n.kind \in {"beginResetModel", "beginInsertRows", "beginRemoveRows"}
IsEnd(n) == n.kind \in {"endResetModel", "endInsertRows", "endRemoveRows"}

\* C9: every change of an item's child count lies between a 'before'
\* notification and its 'after' notification.
C9_ChildCountChangesBracketed ==
    \A i \in 1..Len(notes) :
        notes[i].kind = "childCount" =>
            \E b \in 1..(i - 1) :
                /\ IsBegin(notes[b])
                /\ notes[b].parent \in {NULL, notes[i].parent}
                /\ \A j \in (b + 1)..(i - 1) : ~IsEnd(notes[j])

\* C10: every transition of the transitions aggregation has a source and a
\* target that are items of the hierarchy, of the current generation,
\* registered in the index.
C10_TransitionEndsResolved ==
    \A i \in 1..Len(Transitions) :
        \A e \in {items[Transitions[i]].source, items[Transitions[i]].target} :
            /\ e \in Hierarchy
            /\ e[1] = generation
            /\ \E k \in DOMAIN states_map : states_map[k] = e

\* C10's case: a load has attached a transition
C10_Witness ==
    /\ LoadReturned
    /\ lastOp.ret = "ok"
    /\ Len(Transitions) > 0

\* ------------------------------------------- properties of the renames
\* a step that is a setData call with the edit role and an empty string
EmptyRenameStep ==
    /\ pc = "idle"
    /\ lastOp'.op = "setData"
    /\ lastOp'.role = EditRole
    /\ lastOp'.value = ""

\* a step that leaves the trees, the index and the name as they are
ModelUnchanged ==
    UNCHANGED <<generation, items, root, sm_root, states_root, trans_root,
                states_map, sm_name>>

\* the heap with one more item, an action item under the state machine root
ActionHandle == <<0, 1>>
WithActionItem ==
    (ActionHandle :> NewItem("nodeAction", "", "entry", "", sm_root)) @@ items

Without(seq, x) == SelectSeq(seq, LAMBDA c : c # x)

\* the heap after the move the specification describes
MovedTo(its, item, target_item) ==
    LET old == its[item].parent
    IN  IF target_item = old
        THEN its
        ELSE [its EXCEPT ![old].children = Without(@, item),
                         ![target_item].children = Append(@, item),
                         ![item].parent = target_item]

\* an item that may own item: the states aggregation or a state, and not
\* item itself or an item below it
ValidOwner(its, item, target_item) ==
    /\ its[target_item].type \in {"nodeStatesAggr", "nodeState"}
    /\ target_item \notin Subtree(its, item)

\* C6: move(item, target) changes nothing when target is the owner of item;
\* when target is another item that may own it, item leaves the child
\* sequence of its owner, whose other children keep their order, and becomes
\* the last child of target with target as its parent.
C6_MoveReparents ==
    [][(pc = "idle" /\ lastOp'.op = "move") =>
          LET item == lastOp'.item
              target_item == lastOp'.target
              old == items[item].parent
          IN  IF target_item = old
              THEN items' = items
              ELSE ValidOwner(items, item, target_item) =>
                      /\ items'[old].children = Without(items[old].children, item)
                      /\ items'[target_item].children
                            = Append(items[target_item].children, item)
                      /\ items'[item].parent = target_item]_vars

\* what the specification says a drop does, entry by entry: the result and
\* the heap
RECURSIVE Dropped(_, _, _)
Dropped(its, payload, target_item) ==
    IF payload = <<>>
    THEN [ret |-> "true", items |-> its]
    ELSE LET item == IdToItem(Head(payload))
         IN  IF its[item].parent = target_item
             THEN [ret |-> "false", items |-> its]
             ELSE Dropped(MovedTo(its, item, target_item), Tail(payload),
                          target_item)

\* C7: dropMimeData returns false and moves nothing when the target is
\* neither the states aggregation nor a state; otherwise it takes the entries
\* of the payload in order, moves each to the target, and at the first entry
\* whose owner is the target already it returns false, the entries before it
\* moved, the entries after it not.
C7_DropEntryByEntry ==
    [][(pc = "idle" /\ lastOp'.op = "dropMimeData") =>
          LET target_item == lastOp'.target
              payload == lastOp'.value
          IN  IF items[target_item].type \notin {"nodeStatesAggr", "nodeState"}
              THEN lastOp'.ret = "false" /\ items' = items
              ELSE /\ lastOp'.ret = Dropped(items, payload, target_item).ret
                   /\ items' = Dropped(items, payload, target_item).items]_vars

\* ------------------------------------------- properties of the ownership
\* how many times x occurs in seq
Occurrences(seq, x) == Cardinality({i \in 1..Len(seq) : seq[i] = x})

\* the sum of the child counts of the items of set
RECURSIVE SumChildCounts(_, _)
SumChildCounts(its, set) ==
    IF set = {} THEN 0
    ELSE LET h == CHOOSE x \in set : TRUE
         IN  ChildCount(its, h) + SumChildCounts(its, set \ {h})

\* C12: every item the model has created and not deleted, other than the
\* root, occurs exactly once in the child sequence of the item its parent
\* link names and in no other child sequence, so that the child counts of
\* all items add up to the number of items less one; the items built for
\* top-level nodes are among them.
C12_EveryItemOwnedOnce ==
    /\ \A h \in DOMAIN items \ {root} :
          /\ items[h].parent \in DOMAIN items
          /\ \A q \in DOMAIN items :
                Occurrences(items[q].children, h)
                    = IF q = items[h].parent THEN 1 ELSE 0
    /\ SumChildCounts(items, DOMAIN items) + 1 = Cardinality(DOMAIN items)

\* the top-level nodes of the document
TopNodes == {i \in 1..Len(sm.nodes) : sm.nodes[i].parent = 0}

\* the nodes whose document parent is a top-level node, in document order
HoistedNodes ==
    SelectSeq([i \in 1..Len(sm.nodes) |-> i],
              LAMBDA i : sm.nodes[i].parent \in TopNodes)

\* C13: after a load no item built for a top-level node is in the hierarchy
\* or a value of the index; the children of the states aggregation are the
\* items built for the children of the top-level nodes, in document order,
\* and the item of every other node is a child of the item built for its
\* document parent.
C13_TopLevelFlattened ==
    (LoadReturned /\ lastOp.ret # "read_error") =>
        /\ \A i \in TopNodes :
              /\ built[i] \notin Hierarchy
              /\ \A k \in DOMAIN states_map : states_map[k] # built[i]
        /\ items[states_root].children
              = [j \in 1..Len(HoistedNodes) |-> built[HoistedNodes[j]]]
        /\ \A i \in NonTop :
              LET p == sm.nodes[i].parent
                  owner == IF p \in TopNodes THEN states_root ELSE built[p]
              IN  /\ items[built[i]].parent = owner
                  /\ Occurrences(items[owner].children, built[i]) = 1
                  /\ built[i] \in Hierarchy

\* C13's case: a load of a document with two top-level nodes that have a
\* child each
C13_Witness ==
    /\ LoadReturned
    /\ lastOp.ret = "ok"
    /\ Cardinality(TopNodes) = 2
    /\ Len(HoistedNodes) = 2
    /\ sm.nodes[HoistedNodes[1]].parent # sm.nodes[HoistedNodes[2]].parent

\* C18: for every state, initial state and comment of the hierarchy,
\* idToItem of the identifier the item reports is that item.
C18_OwnIdentifierFindsItem ==
    \A h \in NodeItems : IdToItem(items[h].id) = h

\* ------------------------------------- properties of the fixed part of the tree
\* C11: the state machine root has exactly two children, the states
\* aggregation at row 0 and the transitions aggregation at row 1, whatever
\* loads, resets, renames, moves and drops were made; and as long as no
\* reset builds a new tree the three items stay the same.
C11_TwoAggregations ==
    /\ [](/\ items[sm_root].children = <<states_root, trans_root>>
          /\ items[states_root].type = "nodeStatesAggr"
          /\ items[trans_root].type = "nodeTransitionsAggr"
          /\ Row(items, states_root) = 0
          /\ Row(items, trans_root) = 1)
    /\ [][generation' = generation =>
             /\ sm_root' = sm_root
             /\ states_root' = states_root
             /\ trans_root' = trans_root]_vars

\* C11's case: a document named Light was loaded, the state machine root
\* was renamed, and a drop was made on a tree with a state
C11_Witness ==
    /\ pc = "idle"
    /\ lastOp.op = "dropMimeData"
    /\ sm_name = "Light"
    /\ items[sm_root].title = "x"
    /\ ChildCount(items, states_root) > 0

\* C16: setData returns false unless it is called with the edit role for
\* column 0 of the state machine root, a state, an action or a comment; when
\* it returns false nothing of the model changes and nothing is emitted;
\* when it returns true it emits exactly one dataChanged, for the item it
\* was called for, that item has the new text and no other item changes.
C16_RenameFrame ==
    [][(pc = "idle" /\ lastOp'.op = "setData") =>
          LET h == lastOp'.item
              allowed == /\ lastOp'.role = EditRole
                         /\ lastOp'.column = 0
                         /\ h # NULL
                         /\ items[h].type \in
                               {"nodeSM", "nodeState", "nodeAction", "nodeComment"}
          IN  /\ ~allowed => lastOp'.ret = "false"
              /\ lastOp'.ret = "false" => (ModelUnchanged /\ notes' = <<>>)
              /\ lastOp'.ret = "true" =>
                    /\ notes' = << Note("dataChanged", h) >>
                    /\ items' = [items EXCEPT ![h].title = lastOp'.value]
                    /\ UNCHANGED <<generation, root, sm_root, states_root,
                                   trans_root, states_map>>]_vars

\* C16's case: a state of a tree with a comment was given a new text and
\* one dataChanged was emitted for it
C16_Witness ==
    /\ pc = "idle"
    /\ lastOp.op = "setData"
    /\ lastOp.ret = "true"
    /\ lastOp.item \in Hierarchy
    /\ items[lastOp.item].type = "nodeState"
    /\ items[lastOp.item].title = "x"
    /\ notes = << Note("dataChanged", lastOp.item) >>
    /\ \E q \in Hierarchy : items[q].type = "nodeComment"

\* ------------------------------------------ properties of the navigation
\* C15: hasIndex(row, column, parent) is true exactly when column is 0 and
\* either parent is no valid address and row is 0, or parent is a valid
\* address and row is at least 0 and less than the child count of parent's
\* item.
C15_HasIndexExactly ==
    [][(pc = "idle" /\ lastOp'.op = "hasIndex") =>
          LET row == lastOp'.args.row
              column == lastOp'.args.column
              parent == lastOp'.args.parent
          IN  lastOp'.ret = "true" <=>
                 /\ column = 0
                 /\ \/ ~IsValid(parent) /\ row = 0
                    \/ /\ IsValid(parent)
                       /\ row >= 0
                       /\ row < ChildCount(items, parent.ptr)]_vars

\* C19: for every item of the hierarchy, itemToIndex gives an address that
\* indexToItem takes back to the item, and whose row is the item's position
\* among its siblings.
C19_ItemToIndexRoundTrip ==
    [][(pc = "idle" /\ lastOp'.op = "itemToIndex") =>
          /\ IndexToItem(lastOp'.ret) = lastOp'.args.item
          /\ lastOp'.ret.row = Row(items, lastOp'.args.item)]_vars

\* C20: index(row, column, parent) gives a valid address exactly when
\* hasIndex(row, column, parent) is true, and a valid address a that
\* index(row, 0, p) gives has parent(a) = p and points to the child of p's
\* item at that row.
C20_NavigationAgrees ==
    [][(pc = "idle" /\ lastOp'.op = "index") =>
          LET row == lastOp'.args.row
              column == lastOp'.args.column
              p == lastOp'.args.parent
              a == lastOp'.ret
          IN  /\ IsValid(a) <=> HasIndex(items, row, column, p)
              /\ (IsValid(a) /\ column = 0) =>
                    /\ Parent(items, a) = p
                    /\ a.ptr = items[p.ptr].children[row + 1]]_vars

\* ------------------------------------- properties of flags and mime data
\* whether the flags let the item be dragged, dropped on, edited
Capabilities(flags) ==
    flags \cap {"ItemIsDragEnabled", "ItemIsDropEnabled", "ItemIsEditable"}

\* the capabilities the specification gives a category
StatedCapabilities(type) ==
    CASE type = "nodeState" ->
            {"ItemIsDragEnabled", "ItemIsDropEnabled", "ItemIsEditable"}
      [] type = "nodeInitialState" -> {"ItemIsDragEnabled"}
      [] type = "nodeStatesAggr" -> {"ItemIsDropEnabled"}
      [] type \in {"nodeSM", "nodeAction", "nodeComment"} -> {"ItemIsEditable"}
      [] OTHER -> {}

\* the same with the comment among the categories that have none
AmendedCapabilities(type) ==
    IF type = "nodeComment" THEN {} ELSE StatedCapabilities(type)

\* a step that is a call of flags for the address of an item
FlagsStep == pc = "idle" /\ lastOp'.op = "flags" /\ IsValid(lastOp'.args.index)

DraggedIds(indexes) ==
    LET kept == SelectSeq(indexes,
                    LAMBDA a : /\ a.column = 0
                               /\ items[a.ptr].type \in
                                     {"nodeState", "nodeInitialState"})
    IN  [i \in 1..Len(kept) |-> items[kept[i].ptr].id]

\* C17: reading the strings back from the payload mimeData wrote for a list
\* of addresses gives the identifiers of the addresses that have column 0
\* and point to a state or an initial state, in the order of the list,
\* repeated as often as the list repeats them; the payload has the one
\* media type mimeTypes gives.
C17_MimeDataRoundTrip ==
    [][(pc = "idle" /\ lastOp'.op = "mimeData") =>
          /\ ReadStrings(lastOp'.ret.data) = DraggedIds(lastOp'.args.indexes)
          /\ MimeTypes = << lastOp'.ret.format >>]_vars

\* C17's case: mimeData was called for a state, whose identifier was read
\* back, and a comment, which added nothing
C17_Witness ==
    /\ pc = "idle"
    /\ lastOp.op = "mimeData"
    /\ Len(lastOp.args.indexes) = 2
    /\ lastOp.args.indexes[1].column = 0
    /\ items[lastOp.args.indexes[1].ptr].type = "nodeState"
    /\ IsValid(lastOp.args.indexes[2])
    /\ items[lastOp.args.indexes[2].ptr].type = "nodeComment"
    /\ ReadStrings(lastOp.ret.data) = << items[lastOp.args.indexes[1].ptr].id >>

\* ------------------------------------------- properties of the recorded name
\* C21: the name of the state machine the model records, sm_name, is the
\* title of the current state machine root item, after every load, reset
\* and rename: after a reset, after the load of a document with an empty
\* name that follows a document with a name, and after a rename of the
\* state machine root item through setData.
C21_NameIsRootTitle ==
    sm_name = items[sm_root].title
====
